---- MODULE Spec2Model ----
(***************************************************************************)
(* A model of sternentyp-api (src/app.py): the angle algebra, house        *)
(* assignment, the aspect matcher, the pattern detector, build_chart and   *)
(* the /transits, /synastry and /composite handlers.                       *)
(*                                                                         *)
(* Angles.  The program computes with floats and rounds what it reports    *)
(* with round(x, 6).  Here an angle is an integer number of half           *)
(* micro-degrees, so that a value may lie between two 6-decimal values and *)
(* round(x, 6) is a real conversion.  Deg is one degree in these units.    *)
(***************************************************************************)
EXTENDS Integers, Sequences, FiniteSets, TLC

VARIABLES pc, payload, result, t, best, sky, natal_points

vars == << pc, payload, result, t, best, sky, natal_points >>

\* One micro-degree (the quantum of round(x, 6)) and one degree, in units.
Micro == 1 + 1
Deg == 1000000 * Micro
Full == 360 * Deg
Half == 180 * Deg

None == "None"

Abs(x) == IF x < 0 THEN 0 - x ELSE x
Min(x, y) == IF x <= y THEN x ELSE y
Max(x, y) == IF x >= y THEN x ELSE y

\* round(x, 6) for x >= 0: the nearest whole micro-degree, a tie going to the
\* even one (Python's round).
Round6(x) ==
    LET q == x \div Micro
        r == x % Micro
    IN  IF r = 0 THEN x
        ELSE IF 2 * r < Micro THEN q * Micro
        ELSE IF 2 * r > Micro THEN (q + 1) * Micro
        ELSE IF q % 2 = 0 THEN q * Micro ELSE (q + 1) * Micro

(***************************************************************************)
(* HELPERS (src/app.py 137-153)                                            *)
(***************************************************************************)
\* x % 360.0 in Python takes the sign of the divisor, as % does here.
norm360(x) ==
    LET y == x % Full
    IN  IF y < 0 THEN y + Full ELSE y

angle_diff_noseam(a, b) == Abs(norm360(a) - norm360(b))

angle_diff(a, b) ==
    LET d == Abs(norm360(a) - norm360(b))
    IN  Min(d, Full - d)

midpoint_angle_mean(a, b) == norm360((norm360(a) + norm360(b)) \div 2)

\* d / 2.0 is exact in floating point; on this grid it is exact when a and b
\* are whole micro-degrees, which is what composite passes.
midpoint_angle(a, b) ==
    LET a1 == norm360(a)
        b1 == norm360(b)
        d0 == (b1 - a1 + Full) % Full
        d == IF d0 > Half THEN d0 - Full ELSE d0
    IN  norm360(a1 + d \div 2)

(***************************************************************************)
(* Angle algebra on its own: the inputs are drawn in Init, the two         *)
(* functions are applied by the actions.                                   *)
(***************************************************************************)
\* Whole degrees on and off the circle, and offsets of a micro-degree.
AngleDegrees == { -370, -180, -10, 0, 10, 90, 170, 180, 190, 350, 360, 370, 540 }
AngleOffsets == { 0, Micro }
AngleInputs == { d * Deg + o : d \in AngleDegrees, o \in AngleOffsets }

InitAngle ==
    /\ pc = "start"
    /\ \E a \in AngleInputs, b \in AngleInputs :
          payload = [a |-> a, b |-> b]
    /\ result = None
    /\ t = 0
    /\ best = << >>
    /\ sky = << >>
    /\ natal_points = << >>

CallAngleDiff ==
    /\ pc = "start"
    /\ pc' = "done"
    /\ result' = [fn |-> "angle_diff", value |-> angle_diff(payload.a, payload.b)]
    /\ UNCHANGED << payload, t, best, sky, natal_points >>

CallMidpoint ==
    /\ pc = "start"
    /\ pc' = "done"
    /\ result' = [fn |-> "midpoint_angle",
                  value |-> midpoint_angle(payload.a, payload.b)]
    /\ UNCHANGED << payload, t, best, sky, natal_points >>

NextAngle == CallAngleDiff \/ CallMidpoint

SpecAngle == InitAngle /\ [][NextAngle]_vars

\* C7: midpoint_angle(a, b) lies on the shorter arc between a and b:
\* angle_diff(a, m) + angle_diff(m, b) = angle_diff(a, b); and when a and b
\* are exactly 180 degrees apart it is a + 90 (mod 360).
C7_MidpointOnShorterArc ==
    (pc = "done" /\ result.fn = "midpoint_angle") =>
        LET a == payload.a
            b == payload.b
            m == result.value
        IN  /\ m >= 0 /\ m < Full
            /\ angle_diff(a, m) + angle_diff(m, b) = angle_diff(a, b)
            /\ (angle_diff(a, b) = Half => m = (a + 90 * Deg) % Full)
            /\ ((a = 0 /\ b = Half) => m = 90 * Deg)
            /\ ((a = 350 * Deg /\ b = 10 * Deg) => m = 0)

\* A midpoint was taken of two points exactly opposite, the first one being
\* the larger longitude.
C7_Witness ==
    /\ pc = "done" /\ result.fn = "midpoint_angle"
    /\ payload.a = Half /\ payload.b = 0
    /\ result.value = 270 * Deg

\* C8: angle_diff is symmetric, lies in [0, 180], is 0 on equal arguments
\* and 180 on opposite ones, and is the smaller arc across the 0/360 seam.
C8_AngleDiffLaws ==
    (pc = "done" /\ result.fn = "angle_diff") =>
        LET a == payload.a
            b == payload.b
            v == result.value
        IN  /\ v = angle_diff(b, a)
            /\ 0 <= v /\ v <= Half
            /\ (a = b => v = 0)
            /\ (b = a + Half => v = Half)
            /\ LET fwd == (a - b) % Full
               IN  v = Min(fwd, Full - fwd)
            /\ ((a = 10 * Deg /\ b = 350 * Deg) => v = 20 * Deg)

\* angle_diff was applied across the seam with an argument outside [0, 360).
C8_Witness ==
    /\ pc = "done" /\ result.fn = "angle_diff"
    /\ payload.a = 370 * Deg /\ payload.b = (0 - 10) * Deg
    /\ result.value = 20 * Deg

(***************************************************************************)
(* HOUSE ASSIGNMENT (src/app.py 498-513)                                   *)
(***************************************************************************)
\* The scan with the interval test open at its start.
planet_house_open(planet_lon, houses_out) ==
    LET base == houses_out[1]
        adj == [i \in 1 .. 12 |-> norm360(houses_out[i] - base)]
        pl == norm360(planet_lon - base)
        hit(i) == IF i < 11
                  THEN adj[i + 1] < pl /\ pl < adj[((i + 1) % 12) + 1]
                  ELSE pl >= adj[i + 1] \/ pl < adj[1]
        hits == { i \in 0 .. 11 : hit(i) }
    IN  IF hits = {} THEN 12
        ELSE (CHOOSE i \in hits : \A j \in hits : i <= j) + 1

\* houses_out is the sequence haus_1 .. haus_12.  The for loop returns at
\* the first i whose test holds, and 12 when none does.
planet_house(planet_lon, houses_out) ==
    LET base == houses_out[1]
        adj == [i \in 1 .. 12 |-> norm360(houses_out[i] - base)]
        pl == norm360(planet_lon - base)
        hit(i) == IF i < 11
                  THEN adj[i + 1] <= pl /\ pl < adj[((i + 1) % 12) + 1]
                  ELSE pl >= adj[i + 1] \/ pl < adj[1]
        hits == { i \in 0 .. 11 : hit(i) }
    IN  IF hits = {} THEN 12
        ELSE (CHOOSE i \in hits : \A j \in hits : i <= j) + 1

\* Cusp sets: a first cusp and twelve positive house widths adding up to the
\* circle, as swe.houses gives them (calc_houses reduces each cusp % 360.0).
HouseShifts == 4
HouseWidths ==
    { [i \in 1 .. 12 |-> 30 * Deg],
      << 20 * Deg, 25 * Deg, 45 * Deg, 45 * Deg, 25 * Deg, 20 * Deg,
         20 * Deg, 25 * Deg, 45 * Deg, 45 * Deg, 25 * Deg, 20 * Deg >>,
      << 30 * Deg + 1, 30 * Deg - 1, 12 * Deg, 48 * Deg, 30 * Deg, 30 * Deg,
         30 * Deg + 1, 30 * Deg - 1, 12 * Deg, 48 * Deg, 30 * Deg, 30 * Deg >> }

RECURSIVE SumTo(_, _)
SumTo(w, n) == IF n = 0 THEN 0 ELSE w[n] + SumTo(w, n - 1)

CuspsFrom(first, w) == [i \in 1 .. 12 |-> (first + SumTo(w, i - 1)) % Full]

HouseCusps ==
    { CuspsFrom(k * 75 * Deg + k, w) : k \in 0 .. HouseShifts, w \in HouseWidths }

\* Points on every cusp, one unit either side of it, and inside the house.
HousePoints(cusps) ==
    { (cusps[i] + o) % Full : i \in 1 .. 12, o \in { 0 - 1, 0, 1, 10 * Deg } }

InitHouse ==
    /\ pc = "start"
    /\ \E cusps \in HouseCusps :
          \E p \in HousePoints(cusps) :
              payload = [planet_lon |-> p, houses_out |-> cusps]
    /\ result = None
    /\ t = 0
    /\ best = << >>
    /\ sky = << >>
    /\ natal_points = << >>

CallPlanetHouse ==
    /\ pc = "start"
    /\ pc' = "done"
    /\ result' = [fn |-> "planet_house",
                  value |-> planet_house(payload.planet_lon, payload.houses_out)]
    /\ UNCHANGED << payload, t, best, sky, natal_points >>

NextHouse == CallPlanetHouse

SpecHouse == InitHouse /\ [][NextHouse]_vars

\* The point lies in house i: in [cusp i, cusp i+1) going forward in
\* longitude, house 12 running on to cusp 1.
InHouse(p, cusps, i) ==
    LET nxt == IF i = 12 THEN 1 ELSE i + 1
    IN  (p - cusps[i]) % Full < (cusps[nxt] - cusps[i]) % Full

\* C2: planet_house returns exactly one house number in 1..12, the house
\* whose half-open interval contains the point; a point on a cusp belongs to
\* the house that starts there.
C2_HouseIsContainingInterval ==
    (pc = "done" /\ result.fn = "planet_house") =>
        LET p == payload.planet_lon
            cusps == payload.houses_out
            h == result.value
        IN  /\ h \in 1 .. 12
            /\ InHouse(p, cusps, h)
            /\ \A i \in 1 .. 12 : InHouse(p, cusps, i) => i = h
            /\ \A i \in 1 .. 12 : p = cusps[i] => h = i

\* A point exactly on the cusp of a house other than the first, with the
\* cusps crossing the 0/360 seam, was assigned.
C2_Witness ==
    /\ pc = "done" /\ result.fn = "planet_house"
    /\ payload.planet_lon = payload.houses_out[5]
    /\ payload.houses_out[1] > payload.houses_out[12]
    /\ payload.houses_out[4] > payload.houses_out[5]
    /\ result.value = 5

(***************************************************************************)
(* ASPEKTMUSTER (src/app.py 72-78, 155-160, 249-424)                       *)
(*                                                                         *)
(* A Python dict is a sequence of <<key, value>> pairs in insertion order, *)
(* with no key twice.                                                      *)
(***************************************************************************)
Range(f) == { f[i] : i \in DOMAIN f }
\* F(v), with v worked out once.
With(v, F(_)) == CHOOSE y \in { F(x) : x \in { v } } : TRUE
Keys(dict) == { dict[i][1] : i \in DOMAIN dict }
Has(dict, k) == \E i \in DOMAIN dict : dict[i][1] = k
Get(dict, k) == dict[CHOOSE i \in DOMAIN dict : dict[i][1] = k][2]

PATTERN_ASPECTS ==
    << << "Sextil", 60 * Deg, 4 * Deg >>,
       << "Quadrat", 90 * Deg, 5 * Deg >>,
       << "Trigon", 120 * Deg, 5 * Deg >>,
       << "Opposition", 180 * Deg, 6 * Deg >>,
       << "Quincunx", 150 * Deg, 3 * Deg >> >>

PATTERN_BODIES ==
    << "Sonne", "Mond", "Merkur", "Venus", "Mars",
       "Jupiter", "Saturn", "Uranus", "Neptun", "Pluto" >>

\* The first table row whose orb holds the separation, or (None, None, None).
pick_pattern_aspect(lon_a, lon_b) ==
    LET d == angle_diff(lon_a, lon_b)
        rows == { i \in DOMAIN PATTERN_ASPECTS :
                    Abs(d - PATTERN_ASPECTS[i][2]) <= PATTERN_ASPECTS[i][3] }
    IN  IF rows = {} THEN [aspect |-> None, actual_angle |-> None, orb |-> None]
        ELSE LET i == CHOOSE r \in rows : \A q \in rows : r <= q
             IN  [aspect |-> PATTERN_ASPECTS[i][1],
                  actual_angle |-> Round6(d),
                  orb |-> Round6(Abs(d - PATTERN_ASPECTS[i][2]))]

\* frozenset({a, b}) -> the pair's pattern aspect, for the pairs that have one.
build_aspect_map(bodies_lon) ==
    LET present == { b \in Range(PATTERN_BODIES) : Has(bodies_lon, b) }
        pairs == { {a, b} : a \in present, b \in present } \ { {a} : a \in present }
        asp == [k \in pairs |->
                  LET a == CHOOSE x \in k : TRUE
                      b == CHOOSE x \in k : x # a
                  IN  pick_pattern_aspect(Get(bodies_lon, a), Get(bodies_lon, b))]
    IN  [k \in { q \in pairs : asp[q].aspect # None } |-> asp[k]]

has_aspect(amap, a, b, aspect_name) ==
    /\ {a, b} \in DOMAIN amap
    /\ amap[{a, b}].aspect = aspect_name

\* A pattern record; a key the program leaves out is None here.
Pattern(kind, points, apex, opp) ==
    [pattern |-> kind, points |-> points, apex |-> apex, opposition_to |-> opp]

\* A list from a set of <<position, item>> with distinct positions.
InOrder(pairs) ==
    With(pairs,
         LAMBDA S :
             [r \in 1 .. Cardinality(S) |->
                 (CHOOSE x \in S :
                     Cardinality({ y \in S : y[1] < x[1] }) = r - 1)[2]])

\* The first occurrence of every (pattern, sorted points) key, in list order.
Dedup(patterns) ==
    LET key(p) == << p.pattern, Range(p.points) >>
        keep == { i \in DOMAIN patterns :
                    \A j \in 1 .. i - 1 : key(patterns[j]) # key(patterns[i]) }
    IN  InOrder({ << i, patterns[i] >> : i \in keep })

\* The T-Square loop with its first test only: the apex is c.
TSquareTests_first == 1 .. 1

\* The three tests the T-Square loop makes of a triple (a, b, c), in program
\* order: the apex is c, b, a.
TSquareTests == 1 .. 3

\* detect_patterns with its loops running over the sequence `order` of body
\* names: itertools.combinations yields index-increasing tuples.
\* amap is build_aspect_map(bodies_lon); here, triples and quads are the
\* positions in order of the bodies present, and the ascending triples and
\* quadruples of them (the nested loops' i < j < k < l).
detect_patterns_in(order, amap, here, triples, quads) ==
    LET N == Len(order) + 1
        in(i) == i \in here
        asp(i, j, name) == has_aspect(amap, order[i], order[j], name)
        pos3(x, v) == ((x[1] * N + x[2]) * N + x[3]) * 4 + v
        pos4(x, v) == (((x[1] * N + x[2]) * N + x[3]) * N + x[4]) * 4 + v
        pts3(x) == << order[x[1]], order[x[2]], order[x[3]] >>
        pts4(x) == << order[x[1]], order[x[2]], order[x[3]], order[x[4]] >>
        grand ==
            { x \in triples : /\ asp(x[1], x[2], "Trigon")
                              /\ asp(x[1], x[3], "Trigon")
                              /\ asp(x[2], x[3], "Trigon") }
        grand_trines ==
            InOrder({ << pos3(x, 0), Pattern("Grand Trine", pts3(x), None, None) >> :
                      x \in grand })
        \* v = 1, 2, 3: the three tests of one triple, in program order.
        tsq(x, v) ==
            LET a == x[1]
                b == x[2]
                c == x[3]
            IN  CASE v = 1 -> /\ asp(a, b, "Opposition")
                              /\ asp(a, c, "Quadrat") /\ asp(b, c, "Quadrat")
                  [] v = 2 -> /\ asp(a, c, "Opposition")
                              /\ asp(a, b, "Quadrat") /\ asp(c, b, "Quadrat")
                  [] v = 3 -> /\ asp(b, c, "Opposition")
                              /\ asp(b, a, "Quadrat") /\ asp(c, a, "Quadrat")
        t_squares ==
            InOrder({ << pos3(y[1], y[2]),
                         Pattern("T-Square", pts3(y[1]), order[y[1][4 - y[2]]], None) >> :
                      y \in { z \in triples \X TSquareTests : tsq(z[1], z[2]) } })
        rect(x, v) ==
            LET a == x[1]
                b == x[2]
                c == x[3]
                d == x[4]
            IN  /\ asp(a, c, "Opposition")
                /\ asp(b, d, "Opposition")
                /\ CASE v = 1 -> /\ asp(a, b, "Trigon") /\ asp(c, d, "Trigon")
                                 /\ asp(a, d, "Sextil") /\ asp(b, c, "Sextil")
                     [] v = 2 -> /\ asp(a, d, "Trigon") /\ asp(c, b, "Trigon")
                                 /\ asp(a, b, "Sextil") /\ asp(c, d, "Sextil")
        rectangles ==
            InOrder({ << pos4(y[1], y[2]),
                         Pattern("Mystic Rectangle", pts4(y[1]), None, None) >> :
                      y \in { z \in quads \X (1 .. 2) : rect(z[1], z[2]) } })
        \* x: a found Grand Trine, d: the fourth body, v: the vertex opposed.
        kite(x, d, v) ==
            LET o == x[v]
                r == { x[1], x[2], x[3] } \ { o }
            IN  /\ d \notin { x[1], x[2], x[3] }
                /\ in(d)
                /\ asp(d, o, "Opposition")
                /\ \A q \in r : asp(d, q, "Sextil")
        kites ==
            InOrder({ << pos4(<< y[1][1], y[1][2], y[1][3], y[2] >>, y[3]),
                         Pattern("Kite",
                                 << order[y[1][1]], order[y[1][2]],
                                    order[y[1][3]], order[y[2]] >>,
                                 None, order[y[1][y[3]]]) >> :
                      y \in { z \in grand \X here \X (1 .. 3) :
                                kite(z[1], z[2], z[3]) } })
        yod(x, v) ==
            LET a == x[1]
                b == x[2]
                c == x[3]
            IN  CASE v = 1 -> /\ asp(a, b, "Sextil")
                              /\ asp(a, c, "Quincunx") /\ asp(b, c, "Quincunx")
                  [] v = 2 -> /\ asp(a, c, "Sextil")
                              /\ asp(a, b, "Quincunx") /\ asp(c, b, "Quincunx")
                  [] v = 3 -> /\ asp(b, c, "Sextil")
                              /\ asp(b, a, "Quincunx") /\ asp(c, a, "Quincunx")
        yods ==
            InOrder({ << pos3(y[1], y[2]),
                         Pattern("Yod", pts3(y[1]), order[y[1][4 - y[2]]], None) >> :
                      y \in { z \in triples \X (1 .. 3) : yod(z[1], z[2]) } })
    IN  Dedup(grand_trines \o t_squares \o rectangles \o kites \o yods)

ascending_triples(here) ==
    UNION { UNION { { << i, j, k >> : k \in { q \in here : q > j } } :
                    j \in { q \in here : q > i } } : i \in here }

ascending_quads(here, triples) ==
    UNION { { << x[1], x[2], x[3], l >> : l \in { q \in here : q > x[3] } } :
            x \in triples }

detect_patterns_triples(order, amap, here, triples) ==
    detect_patterns_in(order, amap, here, triples, ascending_quads(here, triples))

detect_patterns_here(order, amap, here) ==
    detect_patterns_triples(order, amap, here, ascending_triples(here))

\* detect_patterns with its loops running over the names of order.
detect_patterns_over(order, bodies_lon) ==
    detect_patterns_here(order, build_aspect_map(bodies_lon),
                         { i \in DOMAIN order : Has(bodies_lon, order[i]) })

\* The loops running over the input's own key order.
detect_patterns_dictorder(bodies_lon) ==
    detect_patterns_over(
        InOrder({ << i, bodies_lon[i][1] >> :
                  i \in { j \in DOMAIN bodies_lon :
                            bodies_lon[j][1] \in Range(PATTERN_BODIES) } }),
        bodies_lon)

\* The "patterns" list of the response.
detect_patterns(bodies_lon) == detect_patterns_over(PATTERN_BODIES, bodies_lon)

(***************************************************************************)
(* The pattern detector on its own.  The PatternActive bodies take         *)
(* every combination of the longitudes below; the others stand together    *)
(* where they form no pattern aspect with any of those longitudes.         *)
(***************************************************************************)
PatternActive == { "Sonne", "Mond", "Merkur", "Venus" }
PatternSteps == 4
PatternDegrees == { 60 * k : k \in 0 .. PatternSteps } \cup { 90 }
ParkedLon == 20 * Deg

Reverse(seq) == [i \in 1 .. Len(seq) |-> seq[Len(seq) + 1 - i]]
Rotate(seq) == [i \in 1 .. Len(seq) |-> seq[(i % Len(seq)) + 1]]

\* The key orders of the input: that of calc_bodies (BODIES, src 45-61, cut
\* to the pattern bodies and Chiron), and its reverse.
ChartKeyOrder == PATTERN_BODIES \o << "Chiron" >>
DictOrders == { ChartKeyOrder, Reverse(ChartKeyOrder) }

DictOf(order, lon) == [i \in 1 .. Len(order) |-> << order[i], lon[order[i]] >>]

PatternSkies ==
    LET active == PatternActive
    IN  { [b \in Range(ChartKeyOrder) |->
             IF b \in active THEN f[b] * Deg
             ELSE IF b = "Chiron" THEN Half ELSE ParkedLon] :
          f \in [active -> PatternDegrees] }

InitPattern ==
    /\ pc = "start"
    /\ \E order \in DictOrders, lon \in PatternSkies :
          payload = [bodies_lon |-> DictOf(order, lon)]
    /\ result = None
    /\ t = 0
    /\ best = << >>
    /\ sky = << >>
    /\ natal_points = << >>

CallDetectPatterns ==
    /\ pc = "start"
    /\ pc' = "done"
    /\ result' = [fn |-> "detect_patterns",
                  value |-> detect_patterns(payload.bodies_lon)]
    /\ UNCHANGED << payload, t, best, sky, natal_points >>

NextPattern == CallDetectPatterns

SpecPattern == InitPattern /\ [][NextPattern]_vars

\* S has exactly k pairs in the given aspect of the aspect map.
PairCount(amap, S, name) ==
    Cardinality({ k \in DOMAIN amap : k \subseteq S /\ amap[k].aspect = name })

IsRectangle(amap, S) ==
    /\ PairCount(amap, S, "Opposition") = 2
    /\ PairCount(amap, S, "Trigon") = 2
    /\ PairCount(amap, S, "Sextil") = 2

FourSubsets == { S \in SUBSET Range(PATTERN_BODIES) : Cardinality(S) = 4 }

\* C5: every 4-subset of the primary bodies whose six pairwise pattern
\* aspects are two oppositions, two trines and two sextiles is reported as a
\* Mystic Rectangle, whichever bodies form the opposition pairs.
C5_EveryRectangleReported ==
    (pc = "done" /\ result.fn = "detect_patterns") =>
        LET amap == build_aspect_map(payload.bodies_lon)
        IN  \A S \in FourSubsets :
                IsRectangle(amap, S) =>
                    \E i \in DOMAIN result.value :
                        /\ result.value[i].pattern = "Mystic Rectangle"
                        /\ Range(result.value[i].points) = S

\* What the two variants of the program do report: the rectangles whose
\* oppositions join the 1st with the 3rd and the 2nd with the 4th body of the
\* subset in PATTERN_BODIES order.
C5_ReportedRectangles ==
    (pc = "done" /\ result.fn = "detect_patterns") =>
        LET amap == build_aspect_map(payload.bodies_lon)
        IN  \A S \in FourSubsets :
                LET idx == { i \in DOMAIN PATTERN_BODIES : PATTERN_BODIES[i] \in S }
                    nth(k) == PATTERN_BODIES[CHOOSE i \in idx :
                                  Cardinality({ j \in idx : j < i }) = k - 1]
                    reported == \E i \in DOMAIN result.value :
                                   /\ result.value[i].pattern = "Mystic Rectangle"
                                   /\ Range(result.value[i].points) = S
                IN  reported <=>
                        /\ IsRectangle(amap, S)
                        /\ has_aspect(amap, nth(1), nth(3), "Opposition")
                        /\ has_aspect(amap, nth(2), nth(4), "Opposition")

C5_RectangleFound ==
    /\ pc = "done" /\ result.fn = "detect_patterns"
    /\ \E i \in DOMAIN result.value : result.value[i].pattern = "Mystic Rectangle"

\* The same name -> longitude mapping in another key order.
Reorderings(dict) ==
    { Reverse(dict), Rotate(dict), Rotate(Rotate(Reverse(dict))),
      [i \in DOMAIN dict |->
          IF i = 1 THEN dict[2] ELSE IF i = 2 THEN dict[1] ELSE dict[i]] }

\* C6: detect_patterns returns the same deduplicated pattern set for any two
\* inputs that map the same names to the same longitudes in a different order.
C6_OrderIndependent ==
    (pc = "done" /\ result.fn = "detect_patterns") =>
        \A other \in Reorderings(payload.bodies_lon) :
            Range(detect_patterns(other)) = Range(result.value)

\* Detection ran on a reversed key order and found at least two patterns.
C6_Witness ==
    /\ pc = "done" /\ result.fn = "detect_patterns"
    /\ payload.bodies_lon[1][1] = "Chiron"
    /\ Len(result.value) >= 2

(***************************************************************************)
(* CONSTANTS and the aspect matcher (src/app.py 23-69, 127-135, 515-538)   *)
(***************************************************************************)
ZODIAC_SIGNS ==
    << "Widder", "Stier", "Zwillinge", "Krebs", "Loewe", "Jungfrau",
       "Waage", "Skorpion", "Schuetze", "Steinbock", "Wassermann", "Fische" >>

\* The keys of BODIES in insertion order.
BODIES ==
    << "Sonne", "Mond", "Merkur", "Venus", "Mars", "Jupiter", "Saturn",
       "Uranus", "Neptun", "Pluto", "Chiron", "Lilith", "Mondknoten" >>

ASPECTS ==
    << << "Konjunktion", 0, 8 * Deg >>,
       << "Sextil", 60 * Deg, 6 * Deg >>,
       << "Quadrat", 90 * Deg, 6 * Deg >>,
       << "Trigon", 120 * Deg, 6 * Deg >>,
       << "Opposition", 180 * Deg, 8 * Deg >> >>

\* deg is a float in the program; int(deg // 30) % 12 indexes ZODIAC_SIGNS.
deg_to_sign(deg) ==
    LET d == deg % Full
    IN  [zeichen |-> ZODIAC_SIGNS[((d \div (30 * Deg)) % 12) + 1],
         grad |-> Round6(d % (30 * Deg)),
         ecliptic_longitude |-> Round6(d)]

\* SortByOrb leaving the list as it is.
SortByOrb_asis(events) == events

\* list.sort(key=lambda x: x["orb"]): ascending by orb, equal orbs keeping
\* their order.
SortByOrb(events) ==
    With([i \in DOMAIN events |->
             Cardinality({ j \in DOMAIN events :
                             \/ events[j].orb < events[i].orb
                             \/ events[j].orb = events[i].orb /\ j < i }) + 1],
         LAMBDA rank :
             [r \in DOMAIN events |-> events[CHOOSE i \in DOMAIN events : rank[i] = r]])

\* lst[:k]
Take(lst, k) == [i \in 1 .. Min(k, Len(lst)) |-> lst[i]]

\* orb_limit = max(orb_limit, 8.0)
widened(orb) == Max(orb, 8 * Deg)

NoAspect ==
    [aspect |-> None, exact_angle |-> None, actual_angle |-> None,
     orb |-> None, orb_limit |-> None, delta |-> None]

\* The limit test made against the widened limit whatever the points, the
\* record keeping the limit of the points.
first_aspect_loose(d, widen) ==
    LET limit(i) == IF widen THEN widened(ASPECTS[i][3]) ELSE ASPECTS[i][3]
        rows == { i \in DOMAIN ASPECTS :
                    Abs(d - ASPECTS[i][2]) <= widened(ASPECTS[i][3]) }
    IN  IF rows = {} THEN NoAspect
        ELSE LET i == CHOOSE r \in rows : \A q \in rows : r <= q
             IN  [aspect |-> ASPECTS[i][1],
                  exact_angle |-> ASPECTS[i][2],
                  actual_angle |-> Round6(d),
                  orb |-> Round6(Abs(d - ASPECTS[i][2])),
                  orb_limit |-> limit(i),
                  delta |-> Abs(d - ASPECTS[i][2])]

\* The scan "for asp_name, exact, orb in ASPECTS: ... break" on a separation
\* d: the first row whose orb limit (widened when `widen`) holds |d - exact|,
\* as the values the three copies of the loop put into their record; aspect
\* is None when no row matches.  delta is the unrounded |d - exact|.
first_aspect(d, widen) ==
    LET limit(i) == IF widen THEN widened(ASPECTS[i][3]) ELSE ASPECTS[i][3]
        rows == { i \in DOMAIN ASPECTS : Abs(d - ASPECTS[i][2]) <= limit(i) }
    IN  IF rows = {} THEN NoAspect
        ELSE LET i == CHOOSE r \in rows : \A q \in rows : r <= q
             IN  [aspect |-> ASPECTS[i][1],
                  exact_angle |-> ASPECTS[i][2],
                  actual_angle |-> Round6(d),
                  orb |-> Round6(Abs(d - ASPECTS[i][2])),
                  orb_limit |-> limit(i),
                  delta |-> Abs(d - ASPECTS[i][2])]

\* The events in loop order: name_a over set_a, name_b over set_b.  "set_a is
\* set_b" holds at both call sites, which pass one dict twice.
aspects_between(set_a, set_b) ==
    LET na == Len(set_a)
        nb == Len(set_b)
        hit(i, j) ==
            first_aspect(angle_diff(set_a[i][2], set_b[j][2]),
                         set_a[i][1] \in { "Sonne", "Mond" }
                            \/ set_b[j][1] \in { "Sonne", "Mond" })
        cells == { c \in (1 .. na) \X (1 .. nb) :
                     /\ ~(set_a[c[1]][1] = set_b[c[2]][1] /\ set_a = set_b)
                     /\ hit(c[1], c[2]).aspect # None }
        events ==
            InOrder({ << c[1] * (nb + 1) + c[2],
                         LET m == hit(c[1], c[2])
                         IN  [aspect |-> m.aspect,
                              exact_angle |-> m.exact_angle,
                              actual_angle |-> m.actual_angle,
                              orb |-> m.orb,
                              orb_limit |-> m.orb_limit,
                              body_1 |-> set_a[c[1]][1],
                              body_2 |-> set_b[c[2]][1]] >> : c \in cells })
    IN  SortByOrb(events)

\* The same loop keyed by the ordered pair (body_1, body_2).
DedupAspects_ordered(aspects) ==
    LET key(a) == << a.body_1, a.body_2, a.aspect >>
        keep == { i \in DOMAIN aspects :
                    \A j \in 1 .. i - 1 : key(aspects[j]) # key(aspects[i]) }
    IN  InOrder({ << i, aspects[i] >> : i \in keep })

\* The dedup loop of build_chart and composite: the first record of every
\* (sorted pair, aspect) key.
DedupAspects(aspects) ==
    LET key(a) == << { a.body_1, a.body_2 }, a.aspect >>
        keep == { i \in DOMAIN aspects :
                    \A j \in 1 .. i - 1 : key(aspects[j]) # key(aspects[i]) }
    IN  InOrder({ << i, aspects[i] >> : i \in keep })

(***************************************************************************)
(* GEO + TZ and CORE: BUILD CHART (src/app.py 429-635)                     *)
(*                                                                         *)
(* A request is the payload and what the collaborators answer for it:      *)
(* geo (Nominatim), tz_at (TimezoneFinder), sky (swe.calc_ut per body),    *)
(* houses, asc and mc (swe.houses).                                        *)
(***************************************************************************)
\* What datetime.fromisoformat accepts of the strings the requests use.
ValidDates == { "2021-06-15", "2021-10-31", "2021-03-28" }
ValidTimes == { "12:00", "02:30" }
\* The zones pytz knows, of those the requests use.
KnownZones == { "Europe/Berlin", "UTC" }

\* The exception parse_input_datetime raises, or None: pytz.timezone raises
\* on an unknown zone, fromisoformat on a malformed string, and
\* localize(is_dst=None) on a wall time that the zone has twice (the end of
\* DST) or not at all (its start).
parse_input_datetime(date_str, time_str, tz_name) ==
    IF tz_name \notin KnownZones THEN "UnknownTimeZoneError"
    ELSE IF date_str \notin ValidDates \/ time_str \notin ValidTimes THEN "ValueError"
    ELSE IF tz_name = "Europe/Berlin" /\ date_str = "2021-10-31" /\ time_str = "02:30"
         THEN "AmbiguousTimeError"
    ELSE IF tz_name = "Europe/Berlin" /\ date_str = "2021-03-28" /\ time_str = "02:30"
         THEN "NonExistentTimeError"
    ELSE None

Error(msg, code) == [kind |-> "error", msg |-> msg, code |-> code]
Raised(exc) == [kind |-> "raised", exc |-> exc]

\* calc_bodies, then "Suedknoten automatisch".
calc_bodies_lon(sky_now) ==
    [i \in 1 .. Len(BODIES) + 1 |->
        IF i <= Len(BODIES) THEN << BODIES[i], sky_now[BODIES[i]] % Full >>
        ELSE << "Suedknoten", norm360((sky_now["Mondknoten"] % Full) + Half) >>]

\* The chart of a request whose input passed: lines 570-635.
chart_of(w) ==
    LET houses_out == [i \in 1 .. 12 |-> w.houses[i] % Full]
        bodies_lon == calc_bodies_lon(w.sky)
    IN  [ascendant |-> deg_to_sign(w.asc % Full),
         mc |-> deg_to_sign(w.mc % Full),
         houses |-> [i \in 1 .. 12 |-> deg_to_sign(houses_out[i])],
         bodies |-> [i \in DOMAIN bodies_lon |->
                       << bodies_lon[i][1], deg_to_sign(bodies_lon[i][2]) >>],
         planet_houses |-> [i \in DOMAIN bodies_lon |->
                       << bodies_lon[i][1], planet_house(bodies_lon[i][2], houses_out) >>],
         aspects |-> DedupAspects(aspects_between(bodies_lon, bodies_lon)),
         aspect_patterns |-> detect_patterns(bodies_lon)]

\* (result, None), (None, (msg, code)), or the exception that leaves it.
build_chart(p, w) ==
    IF p.date = None \/ p.time = None
    THEN Error("Missing required fields: date, time", 400)
    ELSE IF (p.lat = None \/ p.lon = None) /\ p.place = None
    THEN Error("Provide either (lat, lon) or place", 400)
    ELSE IF (p.lat = None \/ p.lon = None) /\ w.geo = "notfound"
    THEN Error("Could not geocode place. Provide lat/lon for accuracy.", 400)
    ELSE IF (p.lat = None \/ p.lon = None) /\ w.geo = "unavailable"
    THEN Error("Geocoding service temporarily unavailable. Please provide lat/lon.", 503)
    ELSE LET tz_name == IF p.timezone # None THEN p.timezone ELSE w.tz_at
         IN  IF tz_name = None
             THEN Error("Could not infer timezone, please provide timezone", 400)
             ELSE LET exc == parse_input_datetime(p.date, p.time, tz_name)
                  IN  IF exc # None THEN Raised(exc)
                      ELSE [kind |-> "ok", chart |-> chart_of(w)]

(***************************************************************************)
(* /synastry and /composite (src/app.py 755-887)                           *)
(***************************************************************************)
\* dict(lons) with "Aszendent" and "MC" added: the points of a built chart,
\* each at its rounded ecliptic_longitude.
chart_points(ch) ==
    [i \in 1 .. Len(ch.bodies) + 2 |->
        IF i <= Len(ch.bodies)
        THEN << ch.bodies[i][1], ch.bodies[i][2].ecliptic_longitude >>
        ELSE IF i = Len(ch.bodies) + 1
        THEN << "Aszendent", ch.ascendant.ecliptic_longitude >>
        ELSE << "MC", ch.mc.ecliptic_longitude >>]

Angles == { "Sonne", "Mond", "Aszendent", "MC" }

\* synastry_aspects widening for Sonne and Mond only, as aspects_between
\* does.
synastry_aspects_luminaries(a_points, b_points) ==
    LET na == Len(a_points)
        nb == Len(b_points)
        hit(i, j) ==
            first_aspect(angle_diff(a_points[i][2], b_points[j][2]),
                         a_points[i][1] \in { "Sonne", "Mond" }
                            \/ b_points[j][1] \in { "Sonne", "Mond" })
        cells == { c \in (1 .. na) \X (1 .. nb) : hit(c[1], c[2]).aspect # None }
    IN  SortByOrb(
            InOrder({ << c[1] * (nb + 1) + c[2],
                         LET m == hit(c[1], c[2])
                         IN  [aspect |-> m.aspect,
                              exact_angle |-> m.exact_angle,
                              actual_angle |-> m.actual_angle,
                              orb |-> m.orb,
                              orb_limit |-> m.orb_limit,
                              from_a |-> a_points[c[1]][1],
                              to_b |-> b_points[c[2]][1]] >> : c \in cells }))

\* syn_aspects: every point of A against every point of B, sorted by orb.
synastry_aspects(a_points, b_points) ==
    LET na == Len(a_points)
        nb == Len(b_points)
        hit(i, j) ==
            first_aspect(angle_diff(a_points[i][2], b_points[j][2]),
                         a_points[i][1] \in Angles \/ b_points[j][1] \in Angles)
        cells == { c \in (1 .. na) \X (1 .. nb) : hit(c[1], c[2]).aspect # None }
    IN  SortByOrb(
            InOrder({ << c[1] * (nb + 1) + c[2],
                         LET m == hit(c[1], c[2])
                         IN  [aspect |-> m.aspect,
                              exact_angle |-> m.exact_angle,
                              actual_angle |-> m.actual_angle,
                              orb |-> m.orb,
                              orb_limit |-> m.orb_limit,
                              from_a |-> a_points[c[1]][1],
                              to_b |-> b_points[c[2]][1]] >> : c \in cells }))

\* The response of POST /synastry for the two persons' requests (present is
\* FALSE when the field is missing or empty).  a and b are what build_chart
\* returns for them, looked at only where the code has called it.
synastry_of(person_a, person_b, a, b) ==
    IF ~person_a.present \/ ~person_b.present
    THEN Error("Missing required fields: person_a, person_b", 400)
    ELSE IF a.kind = "raised" THEN a
    ELSE IF a.kind = "error" THEN Error(<< "Person A error: ", a.msg >>, a.code)
    ELSE IF b.kind = "raised" THEN b
    ELSE IF b.kind = "error" THEN Error(<< "Person B error: ", b.msg >>, b.code)
                      ELSE LET a_houses_raw ==
                                   [i \in 1 .. 12 |-> a.chart.houses[i].ecliptic_longitude]
                           IN  [kind |-> "ok",
                                synastry_aspects |->
                                    Take(synastry_aspects(chart_points(a.chart),
                                                          chart_points(b.chart)), 200),
                                b_planets_in_a_houses |->
                                    [i \in DOMAIN b.chart.bodies |->
                                        << b.chart.bodies[i][1],
                                           planet_house(
                                               b.chart.bodies[i][2].ecliptic_longitude,
                                               a_houses_raw) >>]]

\* The response of POST /composite, a and b as in synastry_of.
composite_of(person_a, person_b, a, b) ==
    IF ~person_a.present \/ ~person_b.present
    THEN Error("Missing required fields: person_a, person_b", 400)
    ELSE IF a.kind = "raised" THEN a
    ELSE IF a.kind = "error" THEN Error(<< "Person A error: ", a.msg >>, a.code)
    ELSE IF b.kind = "raised" THEN b
    ELSE IF b.kind = "error" THEN Error(<< "Person B error: ", b.msg >>, b.code)
                      ELSE LET comp_lons ==
                                   [i \in DOMAIN a.chart.bodies |->
                                       << a.chart.bodies[i][1],
                                          midpoint_angle(
                                              a.chart.bodies[i][2].ecliptic_longitude,
                                              b.chart.bodies[i][2].ecliptic_longitude) >>]
                               comp_asc ==
                                   midpoint_angle(a.chart.ascendant.ecliptic_longitude,
                                                  b.chart.ascendant.ecliptic_longitude)
                               comp_mc ==
                                   midpoint_angle(a.chart.mc.ecliptic_longitude,
                                                  b.chart.mc.ecliptic_longitude)
                           IN  [kind |-> "ok",
                                ascendant |-> deg_to_sign(comp_asc),
                                mc |-> deg_to_sign(comp_mc),
                                bodies |-> [i \in DOMAIN comp_lons |->
                                              << comp_lons[i][1],
                                                 deg_to_sign(comp_lons[i][2]) >>],
                                aspects |->
                                    Take(DedupAspects(
                                             aspects_between(comp_lons, comp_lons)), 200)]

(***************************************************************************)
(* /transits (src/app.py 653-753)                                          *)
(*                                                                         *)
(* Time is in whole hours since datetime.min (0001-01-01T00:00): every     *)
(* instant of a sweep is start + k * step_hours, a whole hour.  The        *)
(* variable sky is what the ephemeris answers for the request in progress  *)
(* (eph), with the instants the sweep has asked it about, in order (seen). *)
(***************************************************************************)
\* The dates date.fromisoformat accepts of those the requests use, as days
\* since 0001-01-01.
DayOf(date_str) ==
    CASE date_str = "0001-01-01" -> 0
      [] date_str = "0001-01-02" -> 1
      [] date_str = "0001-01-03" -> 2
      [] date_str = "0001-01-04" -> 3
      [] OTHER -> 0 - 1

start_dt_utc(p) == 24 * DayOf(p.start_date)
\* T23:59:59 of the end date: a whole hour h is <= it when h <= this hour.
end_dt_utc(p) == 24 * DayOf(p.end_date) + 23

\* The ephemeris' longitudes for the basic sky, in degrees.
BaseSkyDeg ==
    [b \in Range(BODIES) |->
        CASE b = "Sonne" -> 15      [] b = "Mond" -> 100
          [] b = "Merkur" -> 33     [] b = "Venus" -> 290
          [] b = "Mars" -> 200      [] b = "Jupiter" -> 250
          [] b = "Saturn" -> 318    [] b = "Uranus" -> 140
          [] b = "Neptun" -> 78     [] b = "Pluto" -> 230
          [] b = "Chiron" -> 5      [] b = "Lilith" -> 170
          [] b = "Mondknoten" -> 125]

BaseSky == [b \in Range(BODIES) |-> BaseSkyDeg[b] * Deg + 1]

\* swe.calc_ut(jd_ut, body): the probe body stands at a separation from a
\* natal point that depends on the 6-hour slot of the day; every other body
\* moves at its own speed from the basic sky.
HourlySpeed ==
    [b \in Range(BODIES) |->
        CASE b = "Sonne" -> 82133       [] b = "Mond" -> 1098333
          [] b = "Merkur" -> 100000     [] b = "Venus" -> 91667
          [] b = "Mars" -> 43333        [] b = "Jupiter" -> 6917
          [] b = "Saturn" -> 2750       [] b = "Uranus" -> 980
          [] b = "Neptun" -> 500        [] b = "Pluto" -> 330
          [] b = "Chiron" -> 1670       [] b = "Lilith" -> 9280
          [] b = "Mondknoten" -> 0 - 4410]

calc_body_lon(eph, b, hour) ==
    IF b = eph.probe
    THEN (eph.at + eph.track[((hour \div 6) % Len(eph.track)) + 1]) % Full
    ELSE (BaseSky[b] + HourlySpeed[b] * hour) % Full

\* trans_lons at an instant: the requested names that are keys of BODIES, in
\* request order; all of BODIES when the request names none.
trans_lons_at(eph, p, hour) ==
    LET names == IF p.transit_bodies = << >> THEN BODIES ELSE p.transit_bodies
        known == { i \in DOMAIN names :
                     /\ names[i] \in Range(BODIES)
                     /\ \A j \in 1 .. i - 1 : names[j] # names[i] }
    IN  InOrder({ << i, << names[i], calc_body_lon(eph, names[i], hour) >> >> :
                  i \in known })

\* The record the loop writes for a match m of tr_name on nat_name at t.
transit_event(tr_name, nat_name, m, hour) ==
    [type |-> "transit_aspect",
     transit_body |-> tr_name,
     natal_point |-> nat_name,
     aspect |-> m.aspect,
     exact_angle |-> m.exact_angle,
     actual_angle |-> m.actual_angle,
     orb |-> m.orb,
     orb_limit |-> m.orb_limit,
     peak_utc |-> hour]

\* replaces with the comparison left out: the record of the instant processed
\* last is kept.
replaces_last(cur_orb, delta) == TRUE

\* "delta < cur['orb']": the unrounded delta of this instant against the
\* rounded orb of the record kept.
replaces(cur_orb, delta) == delta < cur_orb

\* One pass of the while body over trans_lons x natal_points: best after it.
\* A pair matches at most one aspect at an instant, so every key is met at
\* most once in a pass; a new key goes to the end of the dict, a replaced
\* record stays in its place.
sweep_merge(best_now, trans_lons, points, hour, grid, cells) ==
    LET key(c) == << trans_lons[c[1]][1], points[c[2]][1], grid[c[1]][c[2]].aspect >>
        event(c) == transit_event(trans_lons[c[1]][1], points[c[2]][1],
                                  grid[c[1]][c[2]], hour)
        kept == [i \in DOMAIN best_now |->
                   LET cs == { c \in cells : key(c) = best_now[i][1] }
                   IN  IF cs = {} THEN best_now[i]
                       ELSE LET c == CHOOSE x \in cs : TRUE
                            IN  IF replaces(best_now[i][2].orb, grid[c[1]][c[2]].delta)
                                THEN << key(c), event(c) >>
                                ELSE best_now[i]]
        fresh == InOrder({ << c[1] * (Len(points) + 1) + c[2], << key(c), event(c) >> >> :
                           c \in { x \in cells : ~Has(best_now, key(x)) } })
    IN  kept \o fresh

\* One pass of the loop body's two for-loops over best: grid[i][j] is the
\* match of transit body i on natal point j, cells the places with a match.
sweep_step(best_now, trans_lons, points, hour) ==
    With([i \in DOMAIN trans_lons |-> [j \in DOMAIN points |->
             first_aspect(angle_diff(trans_lons[i][2], points[j][2]),
                          points[j][1] \in Angles
                             \/ trans_lons[i][1] \in { "Sonne", "Mond" })]],
         LAMBDA grid :
             With({ c \in (DOMAIN trans_lons) \X (DOMAIN points) :
                      grid[c[1]][c[2]].aspect # None },
                  LAMBDA cells :
                      sweep_merge(best_now, trans_lons, points, hour, grid, cells)))

\* The response once the sweep is over.
transits_response(best_now) ==
    With(SortByOrb([i \in DOMAIN best_now |-> best_now[i][2]]),
         LAMBDA events :
             With(InOrder({ << i, events[i] >> :
                            i \in { k \in DOMAIN events :
                                      /\ events[k].aspect \in
                                            { "Quadrat", "Opposition", "Konjunktion" }
                                      /\ events[k].transit_body \in
                                            { "Saturn", "Uranus", "Pluto" }
                                      /\ events[k].natal_point \in
                                            { "Sonne", "Mond", "Aszendent", "MC",
                                              "Merkur", "Venus", "Mars" } } }),
                  LAMBDA tension_hits :
                      [kind |-> "ok",
                       events |-> Take(events, 200),
                       tension_score |-> Min(100, Len(tension_hits) * 12),
                       tension_highlights |-> Take(tension_hits, 25)]))

\* What the handler answers before the sweep, or "sweep" when it goes on to
\* the loop: lines 655-676.  natal is what build_chart(natal) returns, and is
\* looked at only where the code has called it.
transits_entry(p, natal) ==
    IF ~p.natal.present THEN Error("Missing required field: natal", 400)
    ELSE IF p.start_date = None \/ p.end_date = None
    THEN Error("Missing required fields: start_date, end_date", 400)
    ELSE IF natal.kind = "raised" THEN natal
    ELSE IF natal.kind = "error"
    THEN Error(<< "Natal error: ", natal.msg >>, natal.code)
    ELSE IF DayOf(p.start_date) < 0 \/ DayOf(p.end_date) < 0
    THEN Raised("ValueError")
    ELSE [kind |-> "sweep", natal_points |-> chart_points(natal.chart)]

(***************************************************************************)
(* The requests.                                                           *)
(***************************************************************************)
\* Skies with one body moved to a chosen separation from another: on, just
\* inside and just outside the table orbs of every aspect.
ProbePairs == { << "Sonne", "Mars" >>, << "Mars", "Jupiter" >>, << "Venus", "Mond" >> }
ProbeOffsets ==
    { 0, 3 * Deg + 1, 6 * Deg, 6 * Deg + 1, 8 * Deg, 8 * Deg + 1,
      0 - 6 * Deg, 0 - (8 * Deg + 1) }
ProbeSeparations == { ASPECTS[i][2] + o : i \in DOMAIN ASPECTS, o \in ProbeOffsets }

Skies ==
    { [BaseSky EXCEPT ![pr[2]] = (BaseSky[pr[1]] + sep) % Full] :
        pr \in ProbePairs, sep \in ProbeSeparations }

World(geo, tz_at, sky_now) ==
    LET cusps == CuspsFrom(345 * Deg + 1, [i \in 1 .. 12 |-> 30 * Deg])
    IN  [geo |-> geo, tz_at |-> tz_at, sky |-> sky_now,
         houses |-> cusps, asc |-> cusps[1], mc |-> cusps[10]]

GoodPayload ==
    [date |-> "2021-06-15", time |-> "12:00", place |-> None,
     lat |-> "52.52", lon |-> "13.40", timezone |-> "Europe/Berlin"]

\* Every combination of present, absent and malformed fields under one sky.
InputProbes ==
    { [payload |-> [date |-> d, time |-> tm, place |-> pl,
                    lat |-> ll[1], lon |-> ll[2], timezone |-> tz],
       world |-> World(geo, tz_at, BaseSky)] :
        d \in { None, "2021-13-45", "2021-06-15", "2021-10-31", "2021-03-28" },
        tm \in { None, "25:61", "12:00", "02:30" },
        pl \in { None, "Berlin" },
        ll \in { << None, None >>, << "52.52", "13.40" >> },
        tz \in { None, "Mars/Phobos", "Europe/Berlin" },
        geo \in { "found", "notfound", "unavailable" },
        tz_at \in { None, "Europe/Berlin" } }

\* A complete payload under every sky.
SkyProbes ==
    { [payload |-> GoodPayload, world |-> World("found", "Europe/Berlin", s)] :
        s \in Skies }

ChartRequests == InputProbes \cup SkyProbes

\* The charts the two-chart and transit requests are made with: Mars on,
\* just inside and just outside the sextile's and the opposition's orb from
\* the Sun; and the partner's skies.
NatalSkies ==
    { [BaseSky EXCEPT !["Mars"] = (BaseSky["Sonne"] + sep) % Full] :
        sep \in { 60 * Deg + 6 * Deg, 60 * Deg + 6 * Deg + 1,
                  Half + 8 * Deg + 1, Half - 8 * Deg } }
PartnerSkies ==
    { BaseSky, [BaseSky EXCEPT !["Mond"] = 107 * Deg + 1, !["Jupiter"] = 12 * Deg] }

Person(p, s) ==
    [present |-> TRUE, payload |-> p, world |-> World("found", "Europe/Berlin", s)]
Absent == [Person(GoodPayload, BaseSky) EXCEPT !.present = FALSE]

\* Persons whose input passes, one with no date, and one whose date is
\* malformed.
PersonsA ==
    { Person(GoodPayload, s) : s \in NatalSkies }
        \cup { Person([GoodPayload EXCEPT !.date = None], BaseSky),
               Person([GoodPayload EXCEPT !.date = "2021-13-45"], BaseSky) }
PersonsB ==
    { Person(GoodPayload, s) : s \in PartnerSkies }
        \cup { Person([GoodPayload EXCEPT !.time = None], BaseSky) }

\* Separations of the probe body from its exact aspect, per 6-hour slot:
\* whole and half micro-degrees around 0.3, values inside the widened orb
\* only, and values outside every orb.
Tracks ==
    { << 3000000, 600000, 600000, 18000001 >>,
      << 599999, 599999, 599999, 599999 >>,
      << 600000, 3000000, 14000000, 200000 >>,
      << 599999, 600000, 600001, 599998 >>,
      << 600001, 600000, 3000000, 600000 >>,
      << 18000001, 18000001, 18000001, 18000001 >> }

\* The probe body, the natal point it is measured from, the exact angle.
Probes ==
    { << "Mars", "Sonne", 60 * Deg >>, << "Mars", "Venus", 60 * Deg >>,
      << "Saturn", "Mond", 90 * Deg >> }

Ephemerides ==
    { [probe |-> pr[1],
       at |-> (Round6(BaseSky[pr[2]]) + pr[3]) % Full,
       track |-> tr] : pr \in Probes, tr \in Tracks }

DateStrs == << "0001-01-01", "0001-01-02", "0001-01-03", "0001-01-04" >>
MaxDay == 2
SweepDates == { DateStrs[i] : i \in 1 .. MaxDay }

\* step_hours = int(payload.get("step_hours", 6)): any integer is taken.
StepHours == { 6, 12, 24, 0, 0 - 12 }

TransitNatal == Person(GoodPayload, BaseSky)

\* Requests that reach the sweep with named bodies, with the default bodies,
\* and requests that lack a field, have a malformed start date, or a natal
\* chart that fails.
TransitPayload(n, sd, ed, st, tb) ==
    [natal |-> n, start_date |-> sd, end_date |-> ed,
     step_hours |-> st, transit_bodies |-> tb]

TransitRequests ==
    { [payload |-> TransitPayload(TransitNatal, sd, ed, st, tb), eph |-> e] :
        sd \in SweepDates, ed \in SweepDates, st \in StepHours,
        tb \in { << "Mars" >>, << "Saturn", "Vulkan", "Mars" >> },
        e \in Ephemerides }
    \cup
    { [payload |-> TransitPayload(TransitNatal, sd, ed, st, << >>), eph |-> e] :
        sd \in SweepDates, ed \in SweepDates, st \in { 6, 0 },
        e \in { x \in Ephemerides : x.track[1] = 600001 } }
    \cup
    { [payload |-> TransitPayload(n, sd, "0001-01-01", 6, << >>),
       eph |-> CHOOSE e \in Ephemerides : TRUE] :
        n \in { TransitNatal, Absent,
                Person([GoodPayload EXCEPT !.date = None], BaseSky),
                Person([GoodPayload EXCEPT !.timezone = "Mars/Phobos"], BaseSky) },
        sd \in { None, "0001-02-30", "0001-01-01" } }

\* build_chart(natal) for the natal persons of the transit requests.
NatalCharts ==
    [person \in { req.payload.natal : req \in TransitRequests } |->
        build_chart(person.payload, person.world)]

\* No request has come in.
Init ==
    /\ pc = "idle"
    /\ payload = [natal |-> Absent]
    /\ result = [fn |-> None, ret |-> [kind |-> None]]
    /\ t = 0
    /\ best = << >>
    /\ sky = [eph |-> CHOOSE e \in Ephemerides : TRUE, seen |-> << >>]
    /\ natal_points = << >>

\* POST /chart: the response is build_chart's return value as it stands.
chart ==
    /\ pc = "idle"
    /\ \E req \in ChartRequests :
          /\ payload' = req
          /\ result' = [fn |-> "chart", ret |-> build_chart(req.payload, req.world)]
    /\ pc' = "done"
    /\ UNCHANGED << t, best, sky, natal_points >>

\* POST /synastry
synastry ==
    /\ pc = "idle"
    /\ \E person_a \in PersonsA \cup { Absent }, person_b \in PersonsB \cup { Absent } :
          \E a \in { build_chart(person_a.payload, person_a.world) },
             b \in { build_chart(person_b.payload, person_b.world) } :
            /\ payload' = [person_a |-> person_a, person_b |-> person_b]
            /\ result' = [fn |-> "synastry", ret |-> synastry_of(person_a, person_b, a, b)]
    /\ pc' = "done"
    /\ UNCHANGED << t, best, sky, natal_points >>

\* POST /composite
composite ==
    /\ pc = "idle"
    /\ \E person_a \in PersonsA \cup { Absent }, person_b \in PersonsB \cup { Absent } :
          \E a \in { build_chart(person_a.payload, person_a.world) },
             b \in { build_chart(person_b.payload, person_b.world) } :
            /\ payload' = [person_a |-> person_a, person_b |-> person_b]
            /\ result' = [fn |-> "composite", ret |-> composite_of(person_a, person_b, a, b)]
    /\ pc' = "done"
    /\ UNCHANGED << t, best, sky, natal_points >>

\* POST /transits up to the loop.
transits_begin ==
    /\ pc = "idle"
    /\ \E req \in TransitRequests :
          \E entry \in { transits_entry(req.payload,
                                        NatalCharts[req.payload.natal]) } :
              /\ payload' = req.payload
              /\ sky' = [eph |-> req.eph, seen |-> << >>]
              /\ IF entry.kind = "sweep"
                 THEN /\ pc' = "loop"
                      /\ natal_points' = entry.natal_points
                      /\ t' = start_dt_utc(req.payload)
                      /\ result' = [fn |-> "transits", ret |-> [kind |-> "pending"]]
                 ELSE /\ pc' = "done"
                      /\ natal_points' = natal_points
                      /\ t' = t
                      /\ result' = [fn |-> "transits", ret |-> entry]
    /\ best' = << >>

\* "while t <= end_dt_utc", and what follows the loop when it is false.
transits_test ==
    /\ pc = "loop"
    /\ IF t <= end_dt_utc(payload)
       THEN /\ pc' = "body"
            /\ result' = result
       ELSE /\ pc' = "done"
            /\ result' = [fn |-> "transits", ret |-> transits_response(best)]
    /\ UNCHANGED << payload, t, best, sky, natal_points >>

\* The loop body.  t += timedelta(hours=step_hours) raises OverflowError
\* when the sum is before datetime.min.
transits_body ==
    /\ pc = "body"
    /\ \E trans_lons \in { trans_lons_at(sky.eph, payload, t) } :
          best' = sweep_step(best, trans_lons, natal_points, t)
    /\ sky' = [sky EXCEPT !.seen = IF t \in Range(@) THEN @ ELSE Append(@, t)]
    /\ IF t + payload.step_hours < 0
       THEN /\ pc' = "done"
            /\ t' = t
            /\ result' = [fn |-> "transits", ret |-> Raised("OverflowError")]
       ELSE /\ pc' = "loop"
            /\ t' = t + payload.step_hours
            /\ result' = result
    /\ UNCHANGED << payload, natal_points >>

Next ==
    \/ chart
    \/ synastry
    \/ composite
    \/ transits_begin
    \/ transits_test
    \/ transits_body

Spec == Init /\ [][Next]_vars

\* A handler that has started runs on: the loop test and the loop body are
\* taken whenever they can be.
SpecFair == Spec /\ WF_vars(transits_test) /\ WF_vars(transits_body)

(***************************************************************************)
(* The aspect records of the responses.                                    *)
(***************************************************************************)
Answered(fn) == pc = "done" /\ result.fn = fn /\ result.ret.kind = "ok"

InOrb(r) ==
    /\ r.orb <= r.orb_limit
    /\ r.orb = Abs(r.actual_angle - r.exact_angle)

\* C3: every aspect record of every path has orb <= orb_limit, and its orb
\* is |actual_angle - exact_angle|: the natal list, the composite list, the
\* synastry list, the transit events kept during the sweep and those
\* returned.
C3_OrbWithinLimit ==
    /\ pc # "idle" => \A i \in DOMAIN best : InOrb(best[i][2])
    /\ Answered("chart") =>
          \A i \in DOMAIN result.ret.chart.aspects : InOrb(result.ret.chart.aspects[i])
    /\ Answered("composite") =>
          \A i \in DOMAIN result.ret.aspects : InOrb(result.ret.aspects[i])
    /\ Answered("synastry") =>
          \A i \in DOMAIN result.ret.synastry_aspects :
              InOrb(result.ret.synastry_aspects[i])
    /\ Answered("transits") =>
          /\ \A i \in DOMAIN result.ret.events : InOrb(result.ret.events[i])
          /\ \A i \in DOMAIN result.ret.tension_highlights :
                InOrb(result.ret.tension_highlights[i])

\* A sweep has returned an event between a table orb and the widened one.
C3_Witness ==
    /\ Answered("transits")
    /\ \E i \in DOMAIN result.ret.events :
          /\ result.ret.events[i].orb > 6 * Deg
          /\ result.ret.events[i].orb_limit = 8 * Deg
          /\ result.ret.events[i].aspect = "Sextil"

\* The rows of ASPECTS nearest to a separation.
NearestRows(sep) ==
    { i \in DOMAIN ASPECTS :
        \A k \in DOMAIN ASPECTS : Abs(sep - ASPECTS[i][2]) <= Abs(sep - ASPECTS[k][2]) }

\* One record per unordered pair of distinct bodies, its type the row
\* nearest to the separation of lons, a dict of the bodies' longitudes.
OnePerPairNearest(aspects, lons) ==
    /\ \A i, j \in DOMAIN aspects :
          i # j => { aspects[i].body_1, aspects[i].body_2 }
                     # { aspects[j].body_1, aspects[j].body_2 }
    /\ \A i \in DOMAIN aspects :
          /\ aspects[i].body_1 # aspects[i].body_2
          /\ \E sep \in { angle_diff(Get(lons, aspects[i].body_1),
                                     Get(lons, aspects[i].body_2)) } :
                /\ aspects[i].actual_angle = Round6(sep)
                /\ \E r \in NearestRows(sep) :
                      /\ aspects[i].aspect = ASPECTS[r][1]
                      /\ aspects[i].exact_angle = ASPECTS[r][2]

\* The composite longitudes of two persons' skies.
CompositeLons(sky_a, sky_b) ==
    [i \in DOMAIN calc_bodies_lon(sky_a) |->
        << calc_bodies_lon(sky_a)[i][1],
           midpoint_angle(deg_to_sign(calc_bodies_lon(sky_a)[i][2]).ecliptic_longitude,
                          deg_to_sign(calc_bodies_lon(sky_b)[i][2]).ecliptic_longitude) >>]

\* C4: in the natal aspect list of build_chart and in the composite aspect
\* list every unordered pair of distinct bodies appears at most once, and the
\* aspect recorded for it is the row of ASPECTS whose exact angle is nearest
\* to the pair's separation.
C4_OneNearestAspectPerPair ==
    /\ Answered("chart") =>
          OnePerPairNearest(result.ret.chart.aspects,
                            calc_bodies_lon(payload.world.sky))
    /\ Answered("composite") =>
          OnePerPairNearest(result.ret.aspects,
                            CompositeLons(payload.person_a.world.sky,
                                          payload.person_b.world.sky))

\* A chart whose loop found every aspect from both of its bodies, and whose
\* list holds it once.
C4_Witness ==
    /\ Answered("chart")
    /\ result.ret.chart.aspects # << >>
    /\ \E lons \in { calc_bodies_lon(payload.world.sky) } :
          Len(aspects_between(lons, lons)) = 2 * Len(result.ret.chart.aspects)

(***************************************************************************)
(* The transit sweep as a whole.                                           *)
(***************************************************************************)
\* The match of transit body tb on natal point j at the instant hour.
transit_match(tb, j, hour) ==
    first_aspect(angle_diff(calc_body_lon(sky.eph, tb, hour), natal_points[j][2]),
                 natal_points[j][1] \in Angles \/ tb \in { "Sonne", "Mond" })

\* The names the sweep computes a longitude for.
SweepNames == { x[1] : x \in Range(trans_lons_at(sky.eph, payload, 0)) }

Least(S) == CHOOSE x \in S : \A y \in S : x <= y

\* The events kept under a key.
Kept(key) == { best[i][2] : i \in { k \in DOMAIN best : best[k][1] = key } }

\* steps: the instants at which (tb, natal point j, aspect) matched.
KeptIsEarliestLeast(tb, j, aspect, steps) ==
    \E least \in { Least({ transit_match(tb, j, h).delta : h \in steps }) } :
        /\ Cardinality({ i \in DOMAIN best :
                           best[i][1] = << tb, natal_points[j][1], aspect >> }) = 1
        /\ \A e \in Kept(<< tb, natal_points[j][1], aspect >>) :
              /\ e.orb = Round6(least)
              /\ e.peak_utc = Least({ h \in steps : transit_match(tb, j, h).delta = least })

KeptIsRoundedLeast(tb, j, aspect, steps) ==
    /\ Cardinality({ i \in DOMAIN best :
                       best[i][1] = << tb, natal_points[j][1], aspect >> }) = 1
    /\ \A e \in Kept(<< tb, natal_points[j][1], aspect >>) :
          /\ e.orb = Round6(Least({ transit_match(tb, j, h).delta : h \in steps }))
          /\ e.peak_utc \in steps

\* C1: after the whole sweep every key (transiting body, natal point,
\* aspect) that matched at some step has exactly one event; its orb is the
\* minimum of |separation - exact angle| over the steps at which the key
\* matched (as the event stores it, to six decimals), and its peak_utc is the
\* earliest step at which that minimum was attained.
C1_MinimumOrbEarliestPeak ==
    Answered("transits") =>
        \A tb \in SweepNames, j \in DOMAIN natal_points, r \in DOMAIN ASPECTS :
            \E steps \in { { h \in Range(sky.seen) :
                                transit_match(tb, j, h).aspect = ASPECTS[r][1] } } :
                steps # {} => KeptIsEarliestLeast(tb, j, ASPECTS[r][1], steps)

\* What the sweep does keep: one event per matched key, its orb the rounded
\* minimum, its peak_utc one of the steps at which the key matched.
C1_RoundedMinimumKept ==
    Answered("transits") =>
        \A tb \in SweepNames, j \in DOMAIN natal_points, r \in DOMAIN ASPECTS :
            \E steps \in { { h \in Range(sky.seen) :
                                transit_match(tb, j, h).aspect = ASPECTS[r][1] } } :
                steps # {} => KeptIsRoundedLeast(tb, j, ASPECTS[r][1], steps)

\* A sweep of several steps has returned whose key matched at more than one.
C1_SweepOfSeveralSteps ==
    /\ Answered("transits")
    /\ Len(sky.seen) > 1
    /\ \E j \in DOMAIN natal_points :
          Cardinality({ h \in Range(sky.seen) :
                          transit_match(sky.eph.probe, j, h).aspect = "Sextil" }) > 1

(***************************************************************************)
(* build_chart and its input.                                              *)
(***************************************************************************)
\* The input errors of a request: a missing date or time, neither place nor
\* coordinates, a malformed date or time, a timezone name that is unknown or
\* cannot be found, a wall time the zone has twice or not at all.
InputFault(p, w) ==
    \/ p.date = None \/ p.time = None
    \/ (p.lat = None \/ p.lon = None) /\ p.place = None
    \/ p.date \notin ValidDates \/ p.time \notin ValidTimes
    \/ p.timezone = None /\ w.tz_at = None
    \/ p.timezone # None /\ p.timezone \notin KnownZones
    \/ /\ p.timezone = "Europe/Berlin" \/ (p.timezone = None /\ w.tz_at = "Europe/Berlin")
       /\ p.date \in { "2021-10-31", "2021-03-28" }
       /\ p.time = "02:30"

\* C9: build_chart never raises for an input error: for every request with
\* one it returns (None, (message, status code)) and no chart.
C9_InputErrorsAreReturned ==
    (pc = "done" /\ result.fn = "chart" /\ InputFault(payload.payload, payload.world))
        => /\ result.ret.kind = "error"
           /\ result.ret.code \in 400 .. 599

\* build_chart returns an error for a missing field and for a place or a
\* timezone that cannot be found.
C9_ChecksBeforeParsing ==
    (/\ pc = "done" /\ result.fn = "chart"
     /\ \/ payload.payload.date = None \/ payload.payload.time = None
        \/ ((payload.payload.lat = None \/ payload.payload.lon = None)
                /\ payload.payload.place = None))
        => result.ret.kind = "error"

(***************************************************************************)
(* Termination of the sweep.                                               *)
(***************************************************************************)
\* C10: the transit sweep terminates for every window and every step size
\* the scan accepts: a sweep that has entered its loop leaves it and the
\* handler returns.
C10_SweepTerminates == (pc = "loop") ~> (pc = "done")

\* With a positive step the sweep visits only instants start + k * step up
\* to the end of the window.
C10_PositiveStepInstants ==
    (pc \in { "loop", "body", "done" } /\ result.fn = "transits"
        /\ payload.step_hours > 0 /\ result.ret.kind \in { "pending", "ok" })
        => \A i \in DOMAIN sky.seen :
              /\ sky.seen[i] = start_dt_utc(payload) + (i - 1) * payload.step_hours
              /\ sky.seen[i] <= end_dt_utc(payload)

(***************************************************************************)
(* The end of a sweep that has kept many events.                           *)
(***************************************************************************)
EmitExtra == 3
EmitLengths == { 200 + d : d \in (0 - EmitExtra) .. EmitExtra } \cup { 0, 1 }
EmitStrides == { 0, 1, 2, 3, 5 }
EmitShifts == 0 .. 4

EmitPoints == chart_points(NatalCharts[TransitNatal].chart)

\* A best map of n keys as a sweep leaves it: Sextil events of distinct
\* (transit body, natal point) pairs, the i-th with an orb of
\* ((a * i + b) % 7) * 0.75 degrees.
EmitBest(n, a, b) ==
    [i \in 1 .. n |->
        With(<< BODIES[((i - 1) % Len(BODIES)) + 1],
                EmitPoints[((i - 1) \div Len(BODIES)) + 1][1],
                ((a * i + b) % 7) * 750000 * Micro >>,
             LAMBDA x :
                << << x[1], x[2], ASPECTS[2][1] >>,
                   transit_event(x[1], x[2],
                       [aspect |-> ASPECTS[2][1],
                        exact_angle |-> ASPECTS[2][2],
                        actual_angle |-> ASPECTS[2][2] + x[3],
                        orb |-> x[3],
                        orb_limit |-> IF x[2] \in Angles \/ x[1] \in { "Sonne", "Mond" }
                                      THEN widened(ASPECTS[2][3])
                                      ELSE ASPECTS[2][3],
                        delta |-> x[3]],
                       6 * (i % 4)) >>)]

\* The loop of a one-day sweep has ended.
InitEmit ==
    /\ pc = "loop"
    /\ payload = TransitPayload(TransitNatal, DateStrs[1], DateStrs[1], 6, << >>)
    /\ result = [fn |-> "transits", ret |-> [kind |-> "pending"]]
    /\ t = 24
    /\ \E n \in EmitLengths, a \in EmitStrides, b \in EmitShifts : best = EmitBest(n, a, b)
    /\ sky = [eph |-> CHOOSE e \in Ephemerides : TRUE, seen |-> << 0, 6, 12, 18 >>]
    /\ natal_points = EmitPoints

NextEmit == transits_test

SpecEmit == InitEmit /\ [][NextEmit]_vars

\* C11: the emitted event list is in non-decreasing orb order, has at most
\* 200 entries, holds retained events only, each once, and leaves out no
\* retained event with a smaller orb than an emitted one.
C11_TightestEmitted ==
    Answered("transits") =>
        With(result.ret.events,
             LAMBDA events :
                /\ Len(events) = Min(200, Len(best))
                /\ \A i \in 1 .. Len(events) - 1 : events[i].orb <= events[i + 1].orb
                /\ \A i \in DOMAIN events : \E k \in DOMAIN best : best[k][2] = events[i]
                /\ \A i, j \in DOMAIN events : i # j => events[i] # events[j]
                /\ \A k \in DOMAIN best :
                      (\A i \in DOMAIN events : events[i] # best[k][2])
                          => \A i \in DOMAIN events : events[i].orb <= best[k][2].orb)

\* More than 200 events were kept, and an event left out ties with the last
\* emitted one while a later-kept event with a smaller orb is emitted.
C11_Witness ==
    /\ Answered("transits")
    /\ Len(best) > 200
    /\ Len(result.ret.events) = 200
    /\ \E k \in DOMAIN best :
          /\ \A i \in DOMAIN result.ret.events : result.ret.events[i] # best[k][2]
          /\ best[k][2].orb = result.ret.events[200].orb
          /\ \E i \in DOMAIN result.ret.events, m \in DOMAIN best :
                m > k /\ best[m][2] = result.ret.events[i]

(***************************************************************************)
(* The bodies a sweep covers.                                              *)
(***************************************************************************)
\* Sonne through Pluto.
PrimaryBodies == { BODIES[i] : i \in 1 .. 10 }

\* A sweep is in progress or has returned for a request naming no bodies.
DefaultSweep ==
    /\ pc # "idle"
    /\ result.fn = "transits"
    /\ result.ret.kind \in { "pending", "ok" }
    /\ payload.transit_bodies = << >>

\* C12: when a transit request names no transiting bodies, the bodies swept
\* are exactly the ten primary bodies, Sonne through Pluto, and no event is
\* kept for Chiron, Lilith or Mondknoten.
C12_DefaultIsPrimaryBodies ==
    DefaultSweep =>
        /\ SweepNames = PrimaryBodies
        /\ \A i \in DOMAIN best : best[i][1][1] \in PrimaryBodies

\* What the default is: every key of BODIES.
C12_DefaultIsAllBodies ==
    DefaultSweep =>
        /\ SweepNames = Range(BODIES)
        /\ \A i \in DOMAIN best : best[i][1][1] \in Range(BODIES)

\* A default sweep has returned an event of an extended point.
C12_ExtendedPointEmitted ==
    /\ DefaultSweep
    /\ Answered("transits")
    /\ \E i \in DOMAIN result.ret.events :
          result.ret.events[i].transit_body \in { "Chiron", "Lilith", "Mondknoten" }


(***************************************************************************)
(* Stellium detection (src/app.py 199-243)                                 *)
(***************************************************************************)
STELLIUM_MIN_BODIES == 3

STELLIUM_BODIES ==
    { "Sonne", "Mond", "Merkur", "Venus", "Mars", "Jupiter", "Saturn",
      "Uranus", "Neptun", "Pluto", "Chiron", "Lilith", "Mondknoten",
      "Suedknoten" }

\* The order sorted() gives the body names (code point order of the strings).
NameOrder ==
    << "Chiron", "Jupiter", "Lilith", "Mars", "Merkur", "Mond", "Mondknoten",
       "Neptun", "Pluto", "Saturn", "Sonne", "Suedknoten", "Uranus", "Venus" >>

\* sorted(names)
SortedNames(names) ==
    With({ i \in DOMAIN NameOrder : NameOrder[i] \in names },
         LAMBDA idx :
             [k \in 1 .. Cardinality(idx) |->
                 NameOrder[CHOOSE i \in idx :
                               Cardinality({ j \in idx : j < i }) = k - 1]])

\* SortByCount leaving the list as it is.
SortByCount_asis(stelliums) == stelliums

\* stelliums.sort(key=lambda x: x["count"], reverse=True): descending by
\* count, equal counts keeping their order.
SortByCount(stelliums) ==
    With([i \in DOMAIN stelliums |->
             Cardinality({ j \in DOMAIN stelliums :
                             \/ stelliums[j].count > stelliums[i].count
                             \/ stelliums[j].count = stelliums[i].count /\ j < i }) + 1],
         LAMBDA rank :
             [r \in DOMAIN stelliums |->
                 stelliums[CHOOSE i \in DOMAIN stelliums : rank[i] = r]])

\* by_sign: the signs of the counted bodies in the order of their first
\* occurrence in bodies_out, each with the bodies appended to it.
by_sign_of(bodies_out) ==
    With({ i \in DOMAIN bodies_out : bodies_out[i][1] \in STELLIUM_BODIES },
         LAMBDA counted :
             With({ i \in counted :
                      \A j \in counted :
                          bodies_out[j][2].zeichen = bodies_out[i][2].zeichen => i <= j },
                  LAMBDA firsts :
                      [k \in 1 .. Cardinality(firsts) |->
                          With(CHOOSE i \in firsts :
                                   Cardinality({ j \in firsts : j < i }) = k - 1,
                               LAMBDA f :
                                   << bodies_out[f][2].zeichen,
                                      { bodies_out[i][1] : i \in
                                          { j \in counted :
                                              bodies_out[j][2].zeichen =
                                                  bodies_out[f][2].zeichen } } >>)]))

\* The entries of the signs that reach STELLIUM_MIN_BODIES, in by_sign order.
stellium_entries(by_sign) ==
    With({ i \in DOMAIN by_sign : Cardinality(by_sign[i][2]) >= STELLIUM_MIN_BODIES },
         LAMBDA big :
             [k \in 1 .. Cardinality(big) |->
                 With(CHOOSE i \in big : Cardinality({ j \in big : j < i }) = k - 1,
                      LAMBDA i :
                          [zeichen |-> by_sign[i][1],
                           bodies |-> SortedNames(by_sign[i][2]),
                           count |-> Cardinality(by_sign[i][2])])])

\* STELLIUM_ORB_DEG is 0.0, so bodies_lon is not read.
calc_stelliums(bodies_out, bodies_lon) ==
    [min_bodies |-> STELLIUM_MIN_BODIES,
     counted_bodies |-> SortedNames(STELLIUM_BODIES),
     orb_mode_deg |-> 0,
     stelliums |-> SortByCount(stellium_entries(by_sign_of(bodies_out)))]

(***************************************************************************)
(* calc_stelliums on the bodies of a chart: seven bodies stand in every     *)
(* combination of four signs, the others where  build_chart's Suedknoten    *)
(* joins Uranus in one of those signs.                                      *)
(***************************************************************************)
StelliumActive ==
    { "Sonne", "Mond", "Merkur", "Venus", "Mars", "Jupiter", "Saturn" }
StelliumDegrees == { 10, 40, 70, 130 }
StelliumParked ==
    [b \in Range(BODIES) \ StelliumActive |->
        CASE b = "Uranus" -> 75 * Deg
          [] b = "Neptun" -> 100 * Deg
          [] b = "Pluto" -> 160 * Deg
          [] b = "Chiron" -> 190 * Deg
          [] b = "Lilith" -> 220 * Deg
          [] OTHER -> 250 * Deg]

StelliumSkies ==
    { [b \in Range(BODIES) |->
          IF b \in StelliumActive THEN f[b] * Deg ELSE StelliumParked[b]] :
      f \in [StelliumActive -> StelliumDegrees] }

InitStellium ==
    /\ pc = "start"
    /\ \E lon \in StelliumSkies :
          payload = [bodies_lon |-> calc_bodies_lon(lon)]
    /\ result = None
    /\ t = 0
    /\ best = << >>
    /\ sky = << >>
    /\ natal_points = << >>

\* build_chart, lines 585 and 604.
CallCalcStelliums ==
    /\ pc = "start"
    /\ pc' = "done"
    /\ \E bodies_out \in
            { [i \in DOMAIN payload.bodies_lon |->
                  << payload.bodies_lon[i][1],
                     deg_to_sign(payload.bodies_lon[i][2]) >>] } :
          result' = [fn |-> "calc_stelliums",
                     bodies_out |-> bodies_out,
                     value |-> calc_stelliums(bodies_out, payload.bodies_lon)]
    /\ UNCHANGED << payload, t, best, sky, natal_points >>

NextStellium == CallCalcStelliums

SpecStellium == InitStellium /\ [][NextStellium]_vars

Occupants(bodies_out, sign) ==
    { b \in STELLIUM_BODIES :
        \E i \in DOMAIN bodies_out :
            bodies_out[i][1] = b /\ bodies_out[i][2].zeichen = sign }

\* C13: calc_stelliums reports a sign exactly when at least 3 bodies of the
\* inclusion set stand in it, once; each entry lists exactly the bodies that
\* stand in its sign, its count is their number, and the entries come in
\* descending order of count.
C13_StelliumsReported ==
    (pc = "done" /\ result.fn = "calc_stelliums") =>
        LET out == result.value.stelliums
        IN  /\ \A s \in Range(ZODIAC_SIGNS) :
                   (\E i \in DOMAIN out : out[i].zeichen = s)
                       <=> Cardinality(Occupants(result.bodies_out, s)) >= 3
            /\ \A i, j \in DOMAIN out : out[i].zeichen = out[j].zeichen => i = j
            /\ \A i \in DOMAIN out :
                   /\ Range(out[i].bodies) = Occupants(result.bodies_out, out[i].zeichen)
                   /\ Len(out[i].bodies) = out[i].count
                   /\ out[i].count = Cardinality(Range(out[i].bodies))
            /\ \A i, j \in DOMAIN out : i < j => out[i].count >= out[j].count

\* Two signs are reported, and the one the chart's bodies reach first holds
\* fewer bodies than the other.
C13_Witness ==
    /\ pc = "done" /\ result.fn = "calc_stelliums"
    /\ Len(result.value.stelliums) = 2
    /\ result.value.stelliums[1].count > result.value.stelliums[2].count
    /\ result.bodies_out[1][2].zeichen = result.value.stelliums[2].zeichen

\* Sonne, Merkur and Venus alone in Widder give one entry, Widder with 3.
C13_WidderAlone ==
    /\ pc = "done" /\ result.fn = "calc_stelliums"
    /\ Occupants(result.bodies_out, "Widder") = { "Sonne", "Merkur", "Venus" }
    /\ result.value.stelliums =
          << [zeichen |-> "Widder",
              bodies |-> << "Merkur", "Sonne", "Venus" >>,
              count |-> 3] >>


(***************************************************************************)
(* The aggregation of the sweep over the instants in any order             *)
(* (src/app.py 687-723).  The loop body is applied to the instants of the  *)
(* sweep one by one in an order chosen freely; sky.seen is the order       *)
(* taken.                                                                  *)
(***************************************************************************)
\* The instants start + k * step_hours up to end_dt_utc, for a positive step.
SweepInstants(p) ==
    { h \in start_dt_utc(p) .. end_dt_utc(p) :
        (h - start_dt_utc(p)) % p.step_hours = 0 }

Ascending(hours) ==
    [k \in 1 .. Cardinality(hours) |->
        CHOOSE h \in hours : Cardinality({ x \in hours : x < h }) = k - 1]

\* best after the loop body has run at the instants of hours, in that order.
RECURSIVE sweep_over(_, _, _, _, _)
sweep_over(best_now, hours, eph, p, points) ==
    IF hours = << >> THEN best_now
    ELSE sweep_over(sweep_step(best_now, trans_lons_at(eph, p, Head(hours)),
                               points, Head(hours)),
                    Tail(hours), eph, p, points)

OrderRequests ==
    { [payload |-> TransitPayload(TransitNatal, DateStrs[1], ed[1], ed[2], tb),
       eph |-> e] :
        ed \in { << DateStrs[1], 6 >>, << DateStrs[2], 12 >> },
        tb \in { << "Mars" >>, << "Saturn", "Sonne" >> },
        e \in Ephemerides }

InitOrder ==
    /\ pc = "body"
    /\ \E req \in OrderRequests :
          /\ payload = req.payload
          /\ sky = [eph |-> req.eph, seen |-> << >>]
          /\ t = start_dt_utc(req.payload)
    /\ result = [fn |-> "transits", ret |-> [kind |-> "permuted"]]
    /\ best = << >>
    /\ natal_points = chart_points(NatalCharts[TransitNatal].chart)

\* The loop body at an instant of the sweep not yet processed.
sweep_any_order ==
    /\ pc = "body"
    /\ \E hour \in SweepInstants(payload) \ Range(sky.seen) :
          /\ \E trans_lons \in { trans_lons_at(sky.eph, payload, hour) } :
                best' = sweep_step(best, trans_lons, natal_points, hour)
          /\ sky' = [sky EXCEPT !.seen = Append(@, hour)]
          /\ t' = hour
          /\ pc' = IF SweepInstants(payload) \ Range(sky.seen) = { hour }
                   THEN "done" ELSE "body"
    /\ UNCHANGED << payload, result, natal_points >>

NextOrder == sweep_any_order

SpecOrder == InitOrder /\ [][NextOrder]_vars

\* The retained keys, each with its retained orb.
RetainedOrbs(best_now) ==
    { << best_now[i][1], best_now[i][2].orb >> : i \in DOMAIN best_now }

InSweepOrder(seen) ==
    sweep_over(<< >>, Ascending(Range(seen)), sky.eph, payload, natal_points)

\* C14: whatever the order in which the loop body has processed a set of
\* instants, the keys retained and the orb retained for each key are those of
\* the same instants processed in ascending order.
C14_OrderInsensitive ==
    result.ret.kind = "permuted" =>
        RetainedOrbs(best) = RetainedOrbs(InSweepOrder(sky.seen))

\* All instants of a sweep were processed, the last two in descending order,
\* and a record kept differs from the one the ascending order keeps.
C14_Witness ==
    /\ result.ret.kind = "permuted"
    /\ pc = "done"
    /\ Len(sky.seen) >= 4
    /\ sky.seen[Len(sky.seen)] < sky.seen[Len(sky.seen) - 1]
    /\ best # InSweepOrder(sky.seen)
    /\ Keys(best) # {}


(***************************************************************************)
(* The orb limit of the aspect records.                                    *)
(***************************************************************************)
\* The orb of the major table stated for an aspect, and the limit stated for
\* an aspect between two points.
StatedBaseOrb(aspect) ==
    IF aspect \in { "Konjunktion", "Opposition" } THEN 8 * Deg ELSE 6 * Deg

StatedLimit(aspect, p1, p2) ==
    IF {p1, p2} \cap { "Sonne", "Mond", "Aszendent", "MC" } # {}
    THEN Max(StatedBaseOrb(aspect), 8 * Deg)
    ELSE StatedBaseOrb(aspect)

LimitInForce(r, p1, p2) ==
    /\ r.aspect \in { ASPECTS[i][1] : i \in DOMAIN ASPECTS }
    /\ r.orb_limit = StatedLimit(r.aspect, p1, p2)
    /\ r.orb <= StatedLimit(r.aspect, p1, p2)

\* C15: in every aspect record (natal, composite, synastry, transit) the orb
\* limit is max(base orb, 8) when either point is Sonne, Mond, Aszendent or
\* MC and the base orb of the aspect otherwise, the base orb being 8 for
\* Konjunktion and Opposition and 6 for Sextil, Quadrat and Trigon.
C15_OrbLimitByPoints ==
    /\ pc # "idle" =>
          \A i \in DOMAIN best :
              LimitInForce(best[i][2], best[i][2].transit_body, best[i][2].natal_point)
    /\ Answered("chart") =>
          \A i \in DOMAIN result.ret.chart.aspects :
              LimitInForce(result.ret.chart.aspects[i],
                           result.ret.chart.aspects[i].body_1,
                           result.ret.chart.aspects[i].body_2)
    /\ Answered("composite") =>
          \A i \in DOMAIN result.ret.aspects :
              LimitInForce(result.ret.aspects[i],
                           result.ret.aspects[i].body_1,
                           result.ret.aspects[i].body_2)
    /\ Answered("synastry") =>
          \A i \in DOMAIN result.ret.synastry_aspects :
              LimitInForce(result.ret.synastry_aspects[i],
                           result.ret.synastry_aspects[i].from_a,
                           result.ret.synastry_aspects[i].to_b)
    /\ Answered("transits") =>
          \A i \in DOMAIN result.ret.events :
              LimitInForce(result.ret.events[i],
                           result.ret.events[i].transit_body,
                           result.ret.events[i].natal_point)

\* A synastry list holds a 6-degree aspect from an angle of A to a body of B
\* that is neither Sonne nor Mond, with the widened limit, and a 6-degree
\* aspect between two such bodies with the limit of the table.
C15_Witness ==
    /\ Answered("synastry")
    /\ \E i, j \in DOMAIN result.ret.synastry_aspects :
          /\ result.ret.synastry_aspects[i].from_a \in { "Aszendent", "MC" }
          /\ result.ret.synastry_aspects[i].to_b \notin Angles
          /\ result.ret.synastry_aspects[i].aspect \in { "Sextil", "Quadrat", "Trigon" }
          /\ result.ret.synastry_aspects[i].orb_limit = 8 * Deg
          /\ result.ret.synastry_aspects[j].from_a \notin Angles
          /\ result.ret.synastry_aspects[j].to_b \notin Angles
          /\ result.ret.synastry_aspects[j].aspect \in { "Sextil", "Quadrat", "Trigon" }
          /\ result.ret.synastry_aspects[j].orb_limit = 6 * Deg

\* A natal list holds a Sextil beyond 6 degrees under the widened limit.
C15_WidenedNatal ==
    /\ Answered("chart")
    /\ \E i \in DOMAIN result.ret.chart.aspects :
          /\ result.ret.chart.aspects[i].aspect = "Sextil"
          /\ result.ret.chart.aspects[i].orb > 6 * Deg
          /\ result.ret.chart.aspects[i].orb_limit = 8 * Deg


(***************************************************************************)
(* The T-Squares of detect_patterns.                                       *)
(***************************************************************************)
ThreeSubsets == { S \in SUBSET Range(PATTERN_BODIES) : Cardinality(S) = 3 }

\* The bodies of S in pattern-table square to both others, which are in
\* pattern-table opposition.
Apexes(amap, S) ==
    { x \in S :
        \E p, q \in S \ { x } :
            /\ p # q
            /\ has_aspect(amap, p, q, "Opposition")
            /\ has_aspect(amap, x, p, "Quadrat")
            /\ has_aspect(amap, x, q, "Quadrat") }

\* C16: detect_patterns reports a T-Square on a 3-subset of the primary
\* bodies exactly when one pair of the three is in pattern-table opposition
\* and the third body is in pattern-table square to both, once, and the apex
\* reported is that third body, wherever it stands in the body order.
C16_TSquareReported ==
    (pc = "done" /\ result.fn = "detect_patterns") =>
        \E amap \in { build_aspect_map(payload.bodies_lon) } :
            /\ \A S \in ThreeSubsets :
                  Apexes(amap, S) # {} <=>
                      \E i \in DOMAIN result.value :
                          /\ result.value[i].pattern = "T-Square"
                          /\ Range(result.value[i].points) = S
            /\ \A i \in DOMAIN result.value :
                  result.value[i].pattern = "T-Square" =>
                      /\ Len(result.value[i].points) = 3
                      /\ Range(result.value[i].points) \in ThreeSubsets
                      /\ { result.value[i].apex } =
                            Apexes(amap, Range(result.value[i].points))
                      /\ \A j \in DOMAIN result.value :
                            (/\ result.value[j].pattern = "T-Square"
                             /\ Range(result.value[j].points) =
                                   Range(result.value[i].points)) => j = i

\* Two T-Squares were reported, the apex of one the first and of the other
\* the second of its points, those in PATTERN_BODIES order.
C16_Witness ==
    /\ pc = "done" /\ result.fn = "detect_patterns"
    /\ \A k \in 1 .. 2 :
          \E i \in DOMAIN result.value :
              /\ result.value[i].pattern = "T-Square"
              /\ result.value[i].apex = result.value[i].points[k]
              /\ result.value[i].points \in
                    { << PATTERN_BODIES[x[1]], PATTERN_BODIES[x[2]], PATTERN_BODIES[x[3]] >> :
                        x \in { y \in (1 .. 4) \X (1 .. 4) \X (1 .. 4) :
                                  y[1] < y[2] /\ y[2] < y[3] } }

\* A T-Square was reported whose apex is the third of its points.
C16_ApexLast ==
    /\ pc = "done" /\ result.fn = "detect_patterns"
    /\ \E i \in DOMAIN result.value :
          /\ result.value[i].pattern = "T-Square"
          /\ result.value[i].apex = result.value[i].points[3]


(***************************************************************************)
(* The rate limiter (src/app.py 83-103).                                   *)
(*                                                                         *)
(* t is time.time() in whole seconds, best is _ip_requests (ip -> deque,   *)
(* in order of first use), payload the request being served and result     *)
(* what rate_limit_guard returned for it.  sky.admitted lists the          *)
(* (ip, time) of the requests the guard let pass, sky.served counts the    *)
(* requests served.                                                        *)
(***************************************************************************)
RATE_LIMIT == 90
RATE_WINDOW == 60

\* request.headers.get("X-Forwarded-For", "") as the list split(",") gives,
\* << >> for a missing or empty header; remote_addr may be None.
get_client_ip(req) ==
    IF req.xff # << >> THEN req.xff[1]
    ELSE IF req.remote_addr # None THEN req.remote_addr
    ELSE "unknown"

\* The purge test with >= for >.
expired_at(now, stamp) == now - stamp >= RATE_WINDOW

\* (now - q[0]) > RATE_WINDOW
expired(now, stamp) == now - stamp > RATE_WINDOW

\* while q and (now - q[0]) > RATE_WINDOW: q.popleft()
purged(q, now) ==
    With(Least({ i \in DOMAIN q : ~expired(now, q[i]) } \cup { Len(q) + 1 }),
         LAMBDA first : SubSeq(q, first, Len(q)))

\* _ip_requests[ip], that of a defaultdict.
queue_of(ip_requests, ip) == IF Has(ip_requests, ip) THEN Get(ip_requests, ip) ELSE << >>

\* _ip_requests with q as the deque of ip.
with_queue(ip_requests, ip, q) ==
    IF Has(ip_requests, ip)
    THEN [i \in DOMAIN ip_requests |->
            IF ip_requests[i][1] = ip THEN << ip, q >> ELSE ip_requests[i]]
    ELSE Append(ip_requests, << ip, q >>)

RateRequests ==
    { [xff |-> << >>, remote_addr |-> "10.0.0.1"],
      [xff |-> << "10.0.0.1", "10.9.9.9" >>, remote_addr |-> "10.0.0.2"],
      [xff |-> << >>, remote_addr |-> "10.0.0.2"],
      [xff |-> << >>, remote_addr |-> None] }

\* Seconds between one request and the next.
RateGaps == { 0, 1, RATE_WINDOW, RATE_WINDOW + 1 }

MaxRequests == 3

\* What a client has been let pass before the requests followed here: a
\* requests at second 0 and b at second s, << a, s, b >>.
RateSeeds ==
    { << 0, 0, 0 >>, << 1, 0, 0 >>, << RATE_LIMIT - 1, 0, 0 >>, << RATE_LIMIT, 0, 0 >>,
      << 45, 30, RATE_LIMIT - 46 >>, << 45, RATE_WINDOW, RATE_LIMIT - 45 >>,
      << RATE_LIMIT - 1, RATE_WINDOW, 1 >> }

SeedQueue(seed) == [i \in 1 .. seed[1] + seed[3] |-> IF i <= seed[1] THEN 0 ELSE seed[2]]

InitRate ==
    /\ pc = "idle"
    /\ \E seed \in RateSeeds :
          /\ t = seed[2]
          /\ best = IF seed[1] + seed[3] = 0 THEN << >>
                    ELSE << << "10.0.0.1", SeedQueue(seed) >> >>
          /\ sky = [admitted |-> [i \in DOMAIN SeedQueue(seed) |->
                                     << "10.0.0.1", SeedQueue(seed)[i] >>],
                    served |-> 0]
    /\ payload = [xff |-> << >>, remote_addr |-> None]
    /\ result = [fn |-> "rate_limit_guard", ip |-> None, ret |-> [kind |-> None]]
    /\ natal_points = << >>

\* A request arrives, not before the previous one, and the guard runs.
rate_limit_guard ==
    /\ sky.served < MaxRequests
    /\ \E req \in RateRequests, gap \in RateGaps :
          \E now \in { t + gap } :
            \E ip \in { get_client_ip(req) } :
              \E q \in { purged(queue_of(best, ip), now) } :
                /\ payload' = req
                /\ t' = now
                /\ IF Len(q) >= RATE_LIMIT
                   THEN /\ best' = with_queue(best, ip, q)
                        /\ result' = [fn |-> "rate_limit_guard", ip |-> ip,
                                      ret |-> [kind |-> "error", code |-> 429]]
                        /\ sky' = [sky EXCEPT !.served = @ + 1]
                   ELSE /\ best' = with_queue(best, ip, Append(q, now))
                        /\ result' = [fn |-> "rate_limit_guard", ip |-> ip,
                                      ret |-> [kind |-> None]]
                        /\ sky' = [admitted |-> Append(sky.admitted, << ip, now >>),
                                   served |-> sky.served + 1]
    /\ UNCHANGED << pc, natal_points >>

NextRate == rate_limit_guard

SpecRate == InitRate /\ [][NextRate]_vars

\* The times at which ip was let pass, in order, and how many of them lie in
\* the seconds from .. to.
AdmittedTimes(ip) ==
    With(SelectSeq(sky.admitted, LAMBDA x : x[1] = ip),
         LAMBDA passed : [i \in DOMAIN passed |-> passed[i][2]])

AdmittedWithin(ip, from, to) ==
    Cardinality({ i \in DOMAIN sky.admitted :
                    /\ sky.admitted[i][1] = ip
                    /\ from <= sky.admitted[i][2]
                    /\ sky.admitted[i][2] <= to })

ClientIps == { get_client_ip(req) : req \in RateRequests }

IsSuffix(q, lst) ==
    /\ Len(q) <= Len(lst)
    /\ q = SubSeq(lst, Len(lst) - Len(q) + 1, Len(lst))

\* C17: with requests arriving in non-decreasing time, no client's queue
\* holds more than 90 timestamps; no more than 90 requests of a client are
\* let pass within any 60 seconds; a request is answered 429 only when 90
\* requests of its client were let pass in the 60 seconds up to it; and a
\* queue holds timestamps of requests let pass only, the latest of them, so
\* that a request answered 429 has added none.
C17_RateLimited ==
    result.fn = "rate_limit_guard" =>
        /\ \A ip \in ClientIps :
              /\ Len(queue_of(best, ip)) <= 90
              /\ IsSuffix(queue_of(best, ip), AdmittedTimes(ip))
              /\ \A from \in { x[2] : x \in Range(sky.admitted) } :
                    AdmittedWithin(ip, from, from + 60) <= 90
        /\ (result.ret.kind = "error" /\ result.ret.code = 429) =>
              /\ AdmittedWithin(result.ip, t - 60, t) >= 90
              /\ Len(queue_of(best, result.ip)) = AdmittedWithin(result.ip, t - 60, t)

\* A request is answered 429 while the oldest of the 90 timestamps of its
\* client's queue is exactly 60 seconds old, after the client had been let
\* pass again.
C17_Witness ==
    /\ result.fn = "rate_limit_guard"
    /\ result.ret.kind = "error"
    /\ Len(queue_of(best, result.ip)) = 90
    /\ queue_of(best, result.ip)[1] = t - 60
    /\ sky.served >= 2
    /\ Len(sky.admitted) > 90

\* A client with 90 requests in its queue is let pass once they are more than
\* 60 seconds old, and another client meanwhile.
C17_PassAfterWindow ==
    /\ result.fn = "rate_limit_guard"
    /\ result.ret.kind = None
    /\ result.ip = "10.0.0.1"
    /\ Len(AdmittedTimes("10.0.0.1")) > 90
    /\ AdmittedTimes("10.0.0.1")[90] = 0
    /\ queue_of(best, "10.0.0.1") = << t >>
    /\ queue_of(best, "10.0.0.2") # << >>

====
